---- MODULE Spec2Model ----
(***************************************************************************)
(* Model of the shopping-list JSON store (src/main.go): one JSON document  *)
(* kept in one file, read with GET /data and replaced with POST/PUT /data, *)
(* guarded by one sync.RWMutex.                                            *)
(*                                                                         *)
(* Bytes are modelled as sequences of JSON tokens (punctuation, literals,  *)
(* key strings and the white space MarshalIndent emits), so a prefix of a  *)
(* sequence is a partly written file.  Go values are modelled as tagged    *)
(* tuples: <<"null">>, <<"num", n>>, <<"arr", seq>>, <<"obj", map>>.       *)
(***************************************************************************)
EXTENDS Integers, Sequences, FiniteSets, TLC

(***************************************************************************)
(* Bounds of the model.                                                    *)
(***************************************************************************)
\* number of requests; net/http runs each in a goroutine of its own
NumWorkers == 2

\* most bytes a write that fails has written before it fails
MaxShort == 2

(***************************************************************************)
(* JSON text: encoding/json as used by the store.                          *)
(***************************************************************************)
\* the object keys of the model, in the byte order json.Marshal sorts them by
KeyOrder == <<"a", "b">>

Keys == {KeyOrder[i] : i \in 1..Len(KeyOrder)}

\* number literals a client may send, and the float64 each one decodes to
NumTok == {"1", "1.0", "2"}

NumVal(tok) == IF tok = "2" THEN 2 ELSE 1

\* strconv formatting of a float64: the shortest literal
FormatNum(n) == IF n = 2 THEN "2" ELSE "1"

\* white space: a blank, a newline, one indentation unit of two blanks
WS == {" ", "\n", "  "}

Null == <<"null">>

Num(n) == <<"num", n>>

Arr(s) == <<"arr", s>>

Obj(m) == <<"obj", m>>

\* JSONData{}: the empty, non-nil map
EmptyObj == Obj(<<>>)

IsObj(v) == v[1] = "obj"

\* m[k] = v on a Go map: insert or overwrite
MapSet(m, k, v) == [x \in (DOMAIN m) \cup {k} |-> IF x = k THEN v ELSE m[x]]

ParseFail == [ok |-> FALSE, v |-> Null, i |-> 0]

RECURSIVE ParseValue(_, _)
RECURSIVE ParseElements(_, _, _)
RECURSIVE ParseMembers(_, _, _)

\* the elements of an array after "[", up to and including "]"
ParseElements(t, i, acc) ==
    LET r == ParseValue(t, i) IN
    IF ~r.ok \/ r.i > Len(t) THEN ParseFail
    ELSE IF t[r.i] = "," THEN ParseElements(t, r.i + 1, Append(acc, r.v))
    ELSE IF t[r.i] = "]" THEN [ok |-> TRUE, v |-> Arr(Append(acc, r.v)), i |-> r.i + 1]
    ELSE ParseFail

\* the members of an object after "{", up to and including "}"; a repeated
\* key overwrites the earlier entry
ParseMembers(t, i, acc) ==
    IF i + 1 > Len(t) \/ t[i] \notin Keys \/ t[i + 1] # ":" THEN ParseFail
    ELSE LET r == ParseValue(t, i + 2) IN
         IF ~r.ok \/ r.i > Len(t) THEN ParseFail
         ELSE IF t[r.i] = "," THEN ParseMembers(t, r.i + 1, MapSet(acc, t[i], r.v))
         ELSE IF t[r.i] = "}" THEN [ok |-> TRUE, v |-> Obj(MapSet(acc, t[i], r.v)), i |-> r.i + 1]
         ELSE ParseFail

\* one JSON value starting at token i (white space already skipped)
ParseValue(t, i) ==
    IF i > Len(t) THEN ParseFail
    ELSE IF t[i] = "null" THEN [ok |-> TRUE, v |-> Null, i |-> i + 1]
    ELSE IF t[i] \in NumTok THEN [ok |-> TRUE, v |-> Num(NumVal(t[i])), i |-> i + 1]
    ELSE IF t[i] = "[" THEN
        IF i + 1 <= Len(t) /\ t[i + 1] = "]"
        THEN [ok |-> TRUE, v |-> Arr(<<>>), i |-> i + 2]
        ELSE ParseElements(t, i + 1, <<>>)
    ELSE IF t[i] = "{" THEN
        IF i + 1 <= Len(t) /\ t[i + 1] = "}"
        THEN [ok |-> TRUE, v |-> EmptyObj, i |-> i + 2]
        ELSE ParseMembers(t, i + 1, <<>>)
    ELSE ParseFail

\* the text without its white space, which the scanner skips between tokens
Significant(bytes) == SelectSeq(bytes, LAMBDA x : x \notin WS)

\* the text is exactly one JSON value
ValidJSON(bytes) ==
    LET t == Significant(bytes)
        r == ParseValue(t, 1)
    IN  r.ok /\ r.i = Len(t) + 1

\* a decoding into interface{}, which takes any JSON value
UnmarshalAny(bytes) ==
    IF ~ValidJSON(bytes) THEN [err |-> TRUE, data |-> Null]
    ELSE [err |-> FALSE, data |-> ParseValue(Significant(bytes), 1).v]

\* json.Unmarshal(bytes, &data) with data a nil JSONData: a syntax error when
\* the text is not exactly one JSON value; null leaves the nil map and is no
\* error; an object fills the map; any other value is a type error.
Unmarshal(bytes) ==
    LET v == ParseValue(Significant(bytes), 1).v
    IN  IF ~ValidJSON(bytes) THEN [err |-> TRUE, data |-> Null]
        ELSE IF v = Null THEN [err |-> FALSE, data |-> Null]
        ELSE IF IsObj(v) THEN [err |-> FALSE, data |-> v]
        ELSE [err |-> TRUE, data |-> Null]

\* a line break and n indentation units of two blanks
RECURSIVE Indent(_)
Indent(n) == IF n = 0 THEN <<>> ELSE <<"  ">> \o Indent(n - 1)

NewLine(n) == <<"\n">> \o Indent(n)

\* the keys of a map in sorted order
SortedKeys(m) == SelectSeq(KeyOrder, LAMBDA k : k \in DOMAIN m)

RECURSIVE MarshalValue(_, _)
RECURSIVE MarshalElements(_, _, _)
RECURSIVE MarshalMembers(_, _, _, _)

MarshalElements(s, i, depth) ==
    NewLine(depth) \o MarshalValue(s[i], depth)
    \o (IF i < Len(s) THEN <<",">> \o MarshalElements(s, i + 1, depth) ELSE <<>>)

MarshalMembers(m, ks, i, depth) ==
    NewLine(depth) \o <<ks[i], ":", " ">> \o MarshalValue(m[ks[i]], depth)
    \o (IF i < Len(ks) THEN <<",">> \o MarshalMembers(m, ks, i + 1, depth) ELSE <<>>)

\* a value at nesting depth `depth`, indented by two blanks per level
MarshalValue(v, depth) ==
    IF v[1] = "null" THEN <<"null">>
    ELSE IF v[1] = "num" THEN <<FormatNum(v[2])>>
    ELSE IF v[1] = "arr" THEN
        IF Len(v[2]) = 0 THEN <<"[", "]">>
        ELSE <<"[">> \o MarshalElements(v[2], 1, depth + 1)
             \o NewLine(depth) \o <<"]">>
    ELSE
        IF DOMAIN v[2] = {} THEN <<"{", "}">>
        ELSE <<"{">> \o MarshalMembers(v[2], SortedKeys(v[2]), 1, depth + 1)
             \o NewLine(depth) \o <<"}">>

\* json.MarshalIndent(data, "", "  "); a nil map encodes as null.  Values
\* decoded from JSON always encode, so err is FALSE for every JSONData.
MarshalIndent(data) == [err |-> FALSE, bytes |-> MarshalValue(data, 0)]

(***************************************************************************)
(* The file system: the one file at dataFilePath.                          *)
(***************************************************************************)
\* os.O_TRUNC on open: the file keeps no byte
Truncate(old) == <<>>

\* f.Write(bytes) at offset 0 of a file holding cur, when k bytes get written
WriteAt(cur, bytes, k) ==
    SubSeq(bytes, 1, k) \o SubSeq(cur, k + 1, Len(cur))

\* a write that opens without O_TRUNC
WriteFileNoTruncate(old, bytes, k) == WriteAt(old, bytes, k)

\* a write that opens with O_APPEND
WriteFileAppend(old, bytes, k) == old \o SubSeq(bytes, 1, k)

\* the numbers of bytes f.Write may have written of n: all of them, or the
\* few a failing write got to
WriteLengths(n) == {k \in 0..n : k <= MaxShort \/ k = n}

\* os.WriteFile(path, bytes, 0644) on a file holding old, when k bytes get
\* written: the open truncates, the write starts at offset 0
WriteFile(old, bytes, k) == WriteAt(Truncate(old), bytes, k)

\* a read through a shared handle that leaves nothing for the next read
ReadConsumes(f) == [f EXCEPT !.content = <<>>]

\* a read that opens with O_CREATE and so makes a missing file
ReadCreates(f) == [f EXCEPT !.exists = TRUE]

\* the file after os.ReadFile has read it: reading changes nothing
AfterRead(f) == f

(***************************************************************************)
(* Processes: the main goroutine and one goroutine per request.            *)
(***************************************************************************)
Main == 0

Workers == 1..NumWorkers

Procs == {Main} \cup Workers

NoProc == 0 - 1

\* the requests of the model
Methods == {"GET", "POST", "PUT", "DELETE", "PATCH"}

\* request bodies: an object (keys unsorted, a float literal, a blank, an
\* array holding null, an object and an array), the empty object, the
\* literal null, an array, a cut-off object
Bodies ==
    { <<"{", "b", ":", "1.0", ",", " ", "a", ":",
        "[", "null", ",", "{", "b", ":", "2", "}", ",", "[", "]", "]", "}">>,
      <<"{", "}">>,
      <<"null">>,
      <<"[", "1", "]">>,
      <<"{", "a", ":">> }

\* the document of the first body
StartDoc ==
    Obj(MapSet(MapSet(<<>>, "b", Num(1)), "a",
               Arr(<<Null, Obj(MapSet(<<>>, "b", Num(2))), Arr(<<>>)>>)))

\* the data file when the process starts, with the document it stands for:
\* no file, a file of zero length, or the file an earlier run saved
StartFiles ==
    { [file |-> [exists |-> FALSE, content |-> <<>>], doc |-> Null],
      [file |-> [exists |-> TRUE, content |-> <<>>], doc |-> EmptyObj],
      [file |-> [exists |-> TRUE, content |-> MarshalIndent(StartDoc).bytes],
       doc |-> StartDoc] }

VARIABLES
    file,       \* [exists, content]: the file at dataFilePath
    mu,         \* Store.mu: [readers, pending, writer]
    pc,         \* where each goroutine is
    method,     \* r.Method of the request a worker handles
    body,       \* the body of an update in progress or rejected
    newData,    \* the data argument of saveDataFile
    jsonData,   \* saveDataFile's encoded bytes
    content,    \* readDataFile's bytes read
    data,       \* readDataFile's result
    err,        \* the error of the call in progress, "" for nil
    status,     \* the status code answered, 0 for none yet
    committed,  \* history: the last saveDataFile that succeeded
    dirty       \* history: a saveDataFile changed the file during this read

vars == <<file, mu, pc, method, body, newData, jsonData, content, data, err,
          status, committed, dirty>>

\* history of the replaces: doc is the argument of the last saveDataFile
\* that returned nil (at the start, the document the file holds), by is its
\* caller, again tells that the successful call before it had the same
\* argument, intact that no later call failed after opening the file,
\* restarted that the process has started again and no saveDataFile has
\* opened the file since
NoWrite ==
    [doc |-> Null, by |-> "none", again |-> FALSE, intact |-> TRUE,
     restarted |-> FALSE]

Succeeded(c, d, caller) ==
    [doc |-> d, by |-> caller, intact |-> TRUE,
     again |-> c.intact /\ c.by # "none" /\ c.doc = d,
     restarted |-> FALSE]

Failed(c) == [c EXCEPT !.intact = FALSE, !.restarted = FALSE]

\* the caller of saveDataFile in goroutine p
Caller(p) == IF p = Main THEN "NewStore" ELSE "updateDataHandler"

\* a decoding without the empty file case
DecodeNoEmptyCase(bytes) == Unmarshal(bytes)

\* the document readDataFile makes of the bytes it read
DecodeContent(bytes) ==
    IF Len(bytes) = 0 THEN [err |-> FALSE, data |-> EmptyObj]
    ELSE Unmarshal(bytes)

\* files found at the start that some other program or an editor wrote:
\* an array, a number, the literal null, a blank, an object and a newline
OtherContents ==
    { <<"[", "1", "]">>, <<"2">>, <<"null">>, <<" ">>, <<"{", "}", "\n">> }

OtherFiles ==
    { [file |-> [exists |-> TRUE, content |-> c],
       doc |-> DecodeContent(c).data] : c \in OtherContents }

\* the state when main starts on one of the given files
InitWith(files) ==
    /\ \E start \in files :
          /\ file = start.file
          /\ committed = [NoWrite EXCEPT !.doc = start.doc]
    /\ mu = [readers |-> {}, pending |-> NoProc, writer |-> NoProc]
    /\ pc = [p \in Procs |-> IF p = Main THEN "NewStore" ELSE "idle"]
    /\ method = [p \in Procs |-> ""]
    /\ body = [p \in Procs |-> <<>>]
    /\ newData = [p \in Procs |-> Null]
    /\ jsonData = [p \in Procs |-> <<>>]
    /\ content = [p \in Procs |-> <<>>]
    /\ data = [p \in Procs |-> Null]
    /\ err = [p \in Procs |-> ""]
    /\ status = [p \in Procs |-> 0]
    /\ dirty = [p \in Procs |-> FALSE]

Init == InitWith(StartFiles)

\* main starts on a file the program did not write, or on none
InitOtherFile ==
    InitWith(OtherFiles \cup {start \in StartFiles : ~start.file.exists})

(***************************************************************************)
(* sync.RWMutex: many readers or one writer; a Lock call that waits for    *)
(* the readers to leave keeps new readers out.                             *)
(***************************************************************************)
\* a read lock that does not wait for the writer
RLockIgnoresWriter(m) == m.pending = NoProc

\* the read lock of a plain Mutex: one holder at a time
RLockExclusive(m) ==
    m.writer = NoProc /\ m.pending = NoProc /\ m.readers = {}

\* RLock returns
CanRLock(m) == m.writer = NoProc /\ m.pending = NoProc

\* a Lock that does not wait for the writer inside
AnnounceIgnoresWriter(m) == m.pending = NoProc

\* Lock passes the writers' mutex and announces itself to the readers
CanAnnounce(m) == m.writer = NoProc /\ m.pending = NoProc

\* Lock returns to the announced writer p
CanLock(m, p) == m.pending = p /\ m.readers = {}

\* a return without the deferred Unlock
NotUnlocked(m) == m

\* Unlock
Unlocked(m) == [m EXCEPT !.writer = NoProc]

\* a return without the deferred RUnlock
NotRUnlocked(m, p) == m

\* RUnlock by reader p
RUnlocked(m, p) == [m EXCEPT !.readers = @ \ {p}]

\* the locals of a call, cleared when the call is over
Reset(f, p, v) == [f EXCEPT ![p] = v]

\* p is in a readDataFile call, from the call to the use of its result
InRead(p) == pc[p] \in {"RLock", "ReadFile", "RUnlock", "ReadRet"}

\* p is between taking and releasing the read lock
InReadCS(p) == pc[p] \in {"ReadFile", "RUnlock"}

\* p is between taking and releasing the write lock
InWriteCS(p) == pc[p] \in {"Marshal", "Unlock"}

(***************************************************************************)
(* Store.saveDataFile                                                      *)
(***************************************************************************)
\* s.mu.Lock() is called
SaveLock(p) ==
    /\ pc[p] = "Lock"
    /\ CanAnnounce(mu)
    /\ mu' = [mu EXCEPT !.pending = p]
    /\ pc' = [pc EXCEPT ![p] = "LockWait"]
    /\ UNCHANGED <<file, method, body, newData, jsonData, content, data, err,
                   status, committed, dirty>>

\* s.mu.Lock() returns
SaveLocked(p) ==
    /\ pc[p] = "LockWait"
    /\ CanLock(mu, p)
    /\ mu' = [mu EXCEPT !.pending = NoProc, !.writer = p]
    /\ pc' = [pc EXCEPT ![p] = "Marshal"]
    /\ UNCHANGED <<file, method, body, newData, jsonData, content, data, err,
                   status, committed, dirty>>

\* json.MarshalIndent, then os.WriteFile: the open with
\* O_WRONLY|O_CREATE|O_TRUNC fails and leaves the file alone, or it creates
\* the file if need be and empties it; then f.Write writes all the bytes and
\* f.Close succeeds, or only the first k bytes get written, or the close fails
SaveWrite(p) ==
    /\ pc[p] = "Marshal"
    /\ LET m == MarshalIndent(newData[p]) IN
       IF m.err
       THEN /\ err' = [err EXCEPT ![p] = "SerializeError"]
            /\ UNCHANGED <<file, jsonData, committed, dirty>>
       ELSE \E opened \in BOOLEAN :
            IF opened
            THEN \E k \in WriteLengths(Len(m.bytes)), closed \in BOOLEAN :
                 LET done == k = Len(m.bytes) /\ closed IN
                 /\ k < Len(m.bytes) => ~closed
                 /\ jsonData' = [jsonData EXCEPT ![p] = m.bytes]
                 /\ file' = [exists |-> TRUE,
                             content |-> WriteFile(file.content, m.bytes, k)]
                 /\ err' = [err EXCEPT ![p] = IF done THEN "" ELSE "WriteError"]
                 /\ committed' = IF done THEN Succeeded(committed, newData[p], Caller(p))
                                         ELSE Failed(committed)
                 /\ dirty' = [q \in Procs |-> dirty[q] \/ InRead(q)]
            ELSE /\ err' = [err EXCEPT ![p] = "WriteError"]
                 /\ UNCHANGED <<file, jsonData, committed, dirty>>
    /\ pc' = [pc EXCEPT ![p] = "Unlock"]
    /\ UNCHANGED <<mu, method, body, newData, content, data, status>>

(***************************************************************************)
(* Store.readDataFile                                                      *)
(***************************************************************************)
\* s.mu.RLock() returns
ReadRLock(p) ==
    /\ pc[p] = "RLock"
    /\ CanRLock(mu)
    /\ mu' = [mu EXCEPT !.readers = @ \cup {p}]
    /\ pc' = [pc EXCEPT ![p] = "ReadFile"]
    /\ UNCHANGED <<file, method, body, newData, jsonData, content, data, err,
                   status, committed, dirty>>

\* os.ReadFile fails (the file is missing or unreadable), or gives the bytes
\* of the file; no byte is the empty object, other bytes are decoded
ReadFile(p) ==
    /\ pc[p] = "ReadFile"
    /\ \E readable \in BOOLEAN :
          IF ~readable \/ ~file.exists
          THEN /\ err' = [err EXCEPT ![p] = "ReadError"]
               /\ UNCHANGED <<content, data>>
          ELSE LET d == DecodeContent(file.content) IN
               /\ content' = [content EXCEPT ![p] = file.content]
               /\ err' = [err EXCEPT ![p] = IF d.err THEN "ParseError" ELSE ""]
               /\ data' = [data EXCEPT ![p] = d.data]
    /\ file' = AfterRead(file)
    /\ pc' = [pc EXCEPT ![p] = "RUnlock"]
    /\ UNCHANGED <<mu, method, body, newData, jsonData, status, committed, dirty>>

\* the deferred s.mu.RUnlock(), and the return of (data, err)
ReadRUnlock(p) ==
    /\ pc[p] = "RUnlock"
    /\ mu' = RUnlocked(mu, p)
    /\ pc' = [pc EXCEPT ![p] = "ReadRet"]
    /\ content' = Reset(content, p, <<>>)
    /\ UNCHANGED <<file, method, body, newData, jsonData, data, err, status,
                   committed, dirty>>

(***************************************************************************)
(* The handlers of /data                                                   *)
(***************************************************************************)
\* the server takes requests once main has built the store
Serving == pc[Main] = "serving"

\* the goroutine of a request that has not arrived yet
Free(p) == pc[p] = "idle"

\* a handler that goes on after a decoding error
BadRequestIgnoresDecode(readFailed, u) == readFailed

\* updateDataHandler answers 400: the body could not be read, or
\* json.Unmarshal into a JSONData returned an error
BadRequest(readFailed, u) == readFailed \/ u.err

\* the status of a stored update
SuccessStatus(m) == IF m = "POST" THEN 201 ELSE 200

\* a route without the default case: what is no update is a read
HandlerNoDefault(m) ==
    IF m \in {"POST", "PUT"} THEN "updateDataHandler" ELSE "getDataHandler"

\* the switch on r.Method of the /data route: the handler called, "" for
\* the default case
Handler(m) ==
    IF m = "GET" THEN "getDataHandler"
    ELSE IF m \in {"POST", "PUT"} THEN "updateDataHandler"
    ELSE ""

\* a handler that answers success whatever saveDataFile returned
UpdateStatusIgnoresError(e, m) == SuccessStatus(m)

\* the status updateDataHandler answers after saveDataFile returned e
UpdateStatus(e, m) == IF e # "" THEN 500 ELSE SuccessStatus(m)

\* GET /data arrives: getDataHandler calls readDataFile
GetRequest(p) ==
    /\ Serving /\ Free(p)
    /\ \E m \in Methods :
          /\ Handler(m) = "getDataHandler"
          /\ method' = [method EXCEPT ![p] = m]
    /\ status' = [status EXCEPT ![p] = 0]
    /\ pc' = [pc EXCEPT ![p] = "RLock"]
    /\ UNCHANGED <<file, mu, body, newData, jsonData, content, data, err, committed, dirty>>

\* getDataHandler after readDataFile: 500 on an error, else 200 and the data
GetRespond(p) ==
    /\ pc[p] = "ReadRet"
    /\ status' = [status EXCEPT ![p] = IF err[p] # "" THEN 500 ELSE 200]
    /\ pc' = [pc EXCEPT ![p] = "done"]
    /\ data' = Reset(data, p, Null)
    /\ err' = Reset(err, p, "")
    /\ dirty' = Reset(dirty, p, FALSE)
    /\ method' = Reset(method, p, "")
    /\ UNCHANGED <<file, mu, body, newData, jsonData, content,
                   committed>>

\* POST or PUT /data arrives with some body: updateDataHandler reads the
\* body and decodes it; it answers 400, or calls saveDataFile(newData)
UpdateRequest(p) ==
    /\ Serving /\ Free(p)
    /\ \E m \in Methods, b \in Bodies, readFailed \in BOOLEAN :
          LET u == Unmarshal(b) IN
          /\ Handler(m) = "updateDataHandler"
          /\ body' = [body EXCEPT ![p] = b]
          /\ IF BadRequest(readFailed, u)
             THEN /\ status' = [status EXCEPT ![p] = 400]
                  /\ pc' = [pc EXCEPT ![p] = "done"]
                  /\ UNCHANGED <<newData, method>>
             ELSE /\ pc' = [pc EXCEPT ![p] = "Lock"]
                  /\ method' = [method EXCEPT ![p] = m]
                  /\ newData' = [newData EXCEPT ![p] = u.data]
                  /\ UNCHANGED status
    /\ UNCHANGED <<file, mu, jsonData, content, data, err, committed, dirty>>

\* saveDataFile returns to updateDataHandler: the deferred s.mu.Unlock(),
\* then 500 on an error, else 201 or 200
UpdateRespond(p) ==
    /\ p \in Workers
    /\ pc[p] = "Unlock"
    /\ mu' = Unlocked(mu)
    /\ status' = [status EXCEPT ![p] = UpdateStatus(err[p], method[p])]
    /\ pc' = [pc EXCEPT ![p] = "done"]
    /\ err' = Reset(err, p, "")
    /\ method' = Reset(method, p, "")
    /\ newData' = Reset(newData, p, Null)
    /\ jsonData' = Reset(jsonData, p, <<>>)
    /\ body' = Reset(body, p, <<>>)
    /\ UNCHANGED <<file, content, data, committed, dirty>>

\* any other method on /data: 405
OtherRequest(p) ==
    /\ Serving /\ Free(p)
    /\ \E m \in Methods :
          /\ Handler(m) = ""
          /\ method' = [method EXCEPT ![p] = m]
    /\ status' = [status EXCEPT ![p] = 405]
    /\ pc' = [pc EXCEPT ![p] = "done"]
    /\ UNCHANGED <<file, mu, body, newData, jsonData, content, data, err, committed, dirty>>

(***************************************************************************)
(* NewStore and main                                                       *)
(***************************************************************************)
\* a nil map in place of JSONData{}
NilData == Null

\* the document NewStore saves when there is no file
InitialData == EmptyObj

\* os.Stat: when it reports that the file does not exist, NewStore calls
\* saveDataFile(JSONData{}); on success or any other error it returns
NewStoreStat ==
    /\ pc[Main] = "NewStore"
    /\ \E otherErr \in BOOLEAN :
          IF ~file.exists /\ ~otherErr
          THEN /\ newData' = [newData EXCEPT ![Main] = InitialData]
               /\ pc' = [pc EXCEPT ![Main] = "Lock"]
          ELSE /\ pc' = [pc EXCEPT ![Main] = "serving"]
               /\ UNCHANGED newData
    /\ UNCHANGED <<file, mu, method, body, jsonData, content, data, err,
                   status, committed, dirty>>

\* saveDataFile returns to NewStore: the deferred s.mu.Unlock(), then
\* log.Fatalf on an error, else main goes on to http.ListenAndServe
NewStoreSaved ==
    /\ pc[Main] = "Unlock"
    /\ mu' = Unlocked(mu)
    /\ pc' = [pc EXCEPT ![Main] = IF err[Main] # "" THEN "fatal" ELSE "serving"]
    /\ newData' = Reset(newData, Main, Null)
    /\ jsonData' = Reset(jsonData, Main, <<>>)
    /\ UNCHANGED <<file, method, body, content, data, err, status, committed,
                   dirty>>

Next ==
    \/ NewStoreStat
    \/ NewStoreSaved
    \/ \E p \in Procs : SaveLock(p)
    \/ \E p \in Procs : SaveLocked(p)
    \/ \E p \in Procs : SaveWrite(p)
    \/ \E p \in Workers : GetRequest(p)
    \/ \E p \in Workers : ReadRLock(p)
    \/ \E p \in Workers : ReadFile(p)
    \/ \E p \in Workers : ReadRUnlock(p)
    \/ \E p \in Workers : GetRespond(p)
    \/ \E p \in Workers : UpdateRequest(p)
    \/ \E p \in Workers : UpdateRespond(p)
    \/ \E p \in Workers : OtherRequest(p)

Spec == Init /\ [][Next]_vars

\* the steps of goroutine p once its call or request is under way; the
\* arrival of a request is not among them
Step(p) ==
    \/ SaveLock(p) \/ SaveLocked(p) \/ SaveWrite(p)
    \/ ReadRLock(p) \/ ReadFile(p) \/ ReadRUnlock(p)
    \/ GetRespond(p) \/ UpdateRespond(p)
    \/ (p = Main /\ (NewStoreStat \/ NewStoreSaved))

\* the Go scheduler runs every goroutine that can run, the disk calls
\* return, and the requests are finitely many: every goroutine whose next
\* step stays possible takes it
FairSpec == Spec /\ \A p \in Procs : WF_vars(Step(p))

\* the process ends (log.Fatalf, a kill, the container stops) and is started
\* again: the goroutines and the lock are those of a new process, the file
\* is as the old process left it
Restart ==
    /\ pc[Main] \in {"serving", "fatal"}
    /\ pc' = [p \in Procs |-> IF p = Main THEN "NewStore" ELSE "idle"]
    /\ mu' = [readers |-> {}, pending |-> NoProc, writer |-> NoProc]
    /\ method' = [p \in Procs |-> ""]
    /\ body' = [p \in Procs |-> <<>>]
    /\ newData' = [p \in Procs |-> Null]
    /\ jsonData' = [p \in Procs |-> <<>>]
    /\ content' = [p \in Procs |-> <<>>]
    /\ data' = [p \in Procs |-> Null]
    /\ err' = [p \in Procs |-> ""]
    /\ status' = [p \in Procs |-> 0]
    /\ dirty' = [p \in Procs |-> FALSE]
    /\ committed' = [committed EXCEPT !.restarted = TRUE]
    /\ UNCHANGED file

NextRestart == Next \/ Restart

\* the program with restarts of the process
SpecRestart == Init /\ [][NextRestart]_vars

\* the program started on a file it did not write
SpecOtherFile == InitOtherFile /\ [][Next]_vars

(***************************************************************************)
(* Properties                                                              *)
(***************************************************************************)
\* p has the result of its readDataFile call and still holds the read lock
HasRead(p) == pc[p] = "RUnlock"

\* p has the result of its readDataFile call
Returned(p) == pc[p] \in {"RUnlock", "ReadRet"}

\* the file holds what the last successful replace wrote
AfterReplace == committed.intact /\ committed.by # "none"

\* C1: while a replace is inside its critical section, no other replace and
\* no read is inside its critical section.
C1_WriterExclusion ==
    \A p \in Procs : InWriteCS(p) =>
        \A q \in Procs \ {p} : ~InWriteCS(q) /\ ~InReadCS(q)

\* a replace is inside its critical section while a read and a replace of
\* other goroutines wait for the lock, in some order
C1_Witness ==
    \E p \in Workers, q \in Workers :
        /\ p # q
        /\ InWriteCS(p)
        /\ pc[q] \in {"RLock", "Lock"}

\* C2: every read that succeeds returns the document of the most recent
\* replace that succeeded (the initial document if there is none).
C2_Linearizable ==
    \A p \in Workers : (HasRead(p) /\ err[p] = "") => data[p] = committed.doc

\* C3: a read that follows a successful replace(D), with no other replace in
\* between, returns exactly D.
C3_RoundTrip ==
    \A p \in Workers :
        (HasRead(p) /\ err[p] # "ReadError" /\ AfterReplace)
            => (err[p] = "" /\ data[p] = committed.doc)

\* a read has returned the empty object that a handler's replace stored
C3_Witness ==
    \E p \in Workers :
        /\ HasRead(p) /\ err[p] = ""
        /\ AfterReplace /\ committed.by = "updateDataHandler"
        /\ committed.doc = EmptyObj
        /\ data[p] = EmptyObj

\* C4: a POST or PUT whose body is not valid JSON is answered 400 by the
\* step that takes it; the request ends there without a call of
\* saveDataFile, and the step changes neither the file nor the lock.
C4_InvalidRejected ==
    [][\A p \in Workers :
          (Free(p) /\ ~Free(p)' /\ Len(body'[p]) > 0 /\ ~ValidJSON(body'[p]))
              => /\ status'[p] = 400
                 /\ pc'[p] = "done"
                 /\ file' = file
                 /\ mu' = mu
                 /\ committed' = committed]_vars

\* a request with a body that is not valid JSON has been answered 400
C4_Witness ==
    \E p \in Workers :
        /\ pc[p] = "done" /\ status[p] = 400
        /\ Len(body[p]) > 0 /\ ~ValidJSON(body[p])
        /\ file.exists /\ Len(file.content) > 0

\* C5: a replace of an existing file that returns an error leaves the file
\* as it was.
C5_AllOrNothing ==
    [][\A p \in Procs :
          (/\ pc[p] = "Marshal" /\ pc'[p] = "Unlock" /\ err'[p] # ""
           /\ file.exists)
              => file' = file]_vars

\* C6: the file, when present and not left by a failed write, holds a JSON
\* object or nothing.
C6_ObjectOrEmpty ==
    (file.exists /\ committed.intact) =>
        \/ Len(file.content) = 0
        \/ /\ ~Unmarshal(file.content).err
           /\ IsObj(Unmarshal(file.content).data)

\* C7: when NewStore has created the file, the file exists, and a read with
\* no replace in between returns the empty object without error.
C7_Initialization ==
    (committed.by = "NewStore" /\ committed.intact) =>
        /\ file.exists
        /\ \A p \in Workers :
              (HasRead(p) /\ err[p] # "ReadError")
                  => (err[p] = "" /\ data[p] = EmptyObj)

\* a read has returned the empty object from the file NewStore created
C7_Witness ==
    \E p \in Workers :
        /\ committed.by = "NewStore" /\ committed.intact
        /\ HasRead(p) /\ err[p] = ""
        /\ data[p] = EmptyObj

\* C8: a read of a file that exists with zero length returns the empty
\* object and no error, and GET /data then answers 200.
C8_EmptyFile ==
    /\ [](\A p \in Workers :
            (HasRead(p) /\ err[p] # "ReadError" /\ Len(content[p]) = 0)
                => (err[p] = "" /\ data[p] = EmptyObj))
    /\ [][\A p \in Workers :
            (pc[p] = "ReadRet" /\ err[p] = "" /\ pc'[p] # "ReadRet")
                => status'[p] = 200]_vars

\* a read of a file of zero length has returned the empty object
C8_Witness ==
    \E p \in Workers :
        /\ HasRead(p) /\ err[p] = ""
        /\ file.exists /\ Len(file.content) = 0
        /\ Len(content[p]) = 0
        /\ data[p] = EmptyObj

\* C9: a successful replace(D) right after a successful replace(D) leaves
\* the file content as the first one left it.
C9_Idempotent ==
    [][\A p \in Procs :
          (/\ pc[p] = "Marshal" /\ pc'[p] = "Unlock" /\ err'[p] = ""
           /\ AfterReplace /\ committed.doc = newData[p])
              => file' = file]_vars

\* a second replace of the same document, not the empty one, has succeeded
C9_Witness ==
    \E p \in Workers :
        /\ pc[p] = "Unlock" /\ err[p] = ""
        /\ committed.again
        /\ newData[p] # EmptyObj /\ newData[p] # Null

\* C10: reads during which no replace changes the file, and which the file
\* system serves, all succeed and return the same document when the file
\* holds a document.
C10_ReadersAgree ==
    \A p \in Workers, q \in Workers :
        (/\ Returned(p) /\ Returned(q)
         /\ ~dirty[p] /\ ~dirty[q]
         /\ err[p] # "ReadError" /\ err[q] # "ReadError"
         /\ ~DecodeContent(file.content).err)
            => (err[p] = "" /\ err[q] = "" /\ data[p] = data[q])

\* two reads are inside their critical sections together, each with the
\* document
C10_Witness ==
    \E p \in Workers, q \in Workers :
        /\ p # q
        /\ HasRead(p) /\ HasRead(q)
        /\ ~dirty[p] /\ ~dirty[q]
        /\ err[p] = "" /\ err[q] = ""
        /\ data[p] = data[q] /\ data[p] # EmptyObj

\* C11: an update is answered 201 (POST) or 200 (PUT) exactly when its body
\* was decoded and saveDataFile returned nil, and then the file holds the
\* encoding of its document; an update whose saveDataFile returned an error
\* is answered 500, and one that never called saveDataFile is answered 400.
C11_SuccessIffPersisted ==
    [][\A p \in Workers :
          /\ (pc[p] = "Unlock" /\ pc'[p] = "done") =>
                /\ status'[p] = 201 <=> (err[p] = "" /\ method[p] = "POST")
                /\ status'[p] = 200 <=> (err[p] = "" /\ method[p] = "PUT")
                /\ status'[p] = 500 <=> err[p] # ""
                /\ err[p] = "" =>
                      /\ ~Unmarshal(body[p]).err
                      /\ file.exists
                      /\ file.content = MarshalIndent(newData[p]).bytes
          /\ (Free(p) /\ pc'[p] = "done" /\ Len(body'[p]) > 0) =>
                status'[p] = 400
          /\ (status'[p] = 201 /\ status[p] # 201) => pc[p] = "Unlock"]_vars

\* a POST has been answered 201 and the file holds its document, while the
\* saveDataFile of another update has returned a write error
C11_Witness ==
    \E p \in Workers, q \in Workers :
        /\ pc[p] = "done" /\ status[p] = 201
        /\ pc[q] = "Unlock" /\ err[q] = "WriteError"
        /\ method[q] \in {"POST", "PUT"}

\* the kind of the top-level value, told by the first token that is not
\* white space
TopLevelObjectOrNull(bytes) ==
    LET t == Significant(bytes) IN Len(t) > 0 /\ t[1] \in {"{", "null"}

LockFree == mu.readers = {} /\ mu.writer = NoProc /\ mu.pending = NoProc

\* p is in a readDataFile or saveDataFile call that has not returned
InCall(p) ==
    pc[p] \in {"RLock", "ReadFile", "RUnlock", "Lock", "LockWait", "Marshal",
               "Unlock"}

\* C14: a goroutine holds the lock only inside a readDataFile or
\* saveDataFile call, so a call that has returned, with or without an
\* error, holds it no longer; when no call is in progress the lock is free.
C14_LockReleased ==
    /\ \A p \in Procs :
          /\ p \in mu.readers => InReadCS(p)
          /\ mu.writer = p => InWriteCS(p)
          /\ mu.pending = p => pc[p] = "LockWait"
    /\ mu.readers \subseteq Workers
    /\ mu.writer \in Procs \cup {NoProc}
    /\ mu.pending \in Procs \cup {NoProc}
    /\ (\A p \in Procs : ~InCall(p)) => LockFree

\* a read has returned a ParseError and a replace has returned a
\* WriteError, answered 500; no call is in progress and the lock is free
C14_Witness ==
    \E p \in Workers, q \in Workers :
        /\ pc[p] = "ReadRet" /\ err[p] = "ParseError"
        /\ pc[q] = "done" /\ status[q] = 500
        /\ LockFree

\* C15: under fair scheduling every readDataFile and saveDataFile call that
\* has started returns; no caller waits for the lock for ever.
C15_CallsReturn == \A p \in Procs : InCall(p) ~> ~InCall(p)

\* a replace has called Lock and waits for a reader to leave
C15_Witness ==
    \E p \in Workers, q \in Workers :
        /\ pc[p] = "LockWait" /\ mu.pending = p
        /\ InReadCS(q) /\ q \in mu.readers

\* C16: a read that calls RLock while no replace holds or waits for the
\* lock goes on into its critical section, whatever reads are inside; the
\* witness is a state with two reads inside together.
C16_ReadersShare ==
    \A p \in Workers :
        (pc[p] = "RLock" /\ mu.writer = NoProc /\ mu.pending = NoProc)
            => ENABLED ReadRLock(p)

\* two reads hold the read lock together, one not yet past os.ReadFile
C16_Witness ==
    \E p \in Workers, q \in Workers :
        /\ p # q
        /\ {p, q} \subseteq mu.readers
        /\ pc[p] = "ReadFile" /\ InReadCS(q)

\* C17: when NewStore's write of the empty object fails, main never serves;
\* and whenever a request has been taken, the data file exists (no file is
\* ever removed, so it was established at startup or by a request after a
\* startup that established it).
C17_FatalStartup ==
    /\ err[Main] # "" => ~Serving
    /\ \A p \in Workers : ~Free(p) => file.exists

\* C18: NewStore on a file that exists leaves it as it is and writes
\* nothing; a read after a restart, before any replace of the new process,
\* returns the document of the last replace that succeeded before it.
C18_SurvivesRestart ==
    /\ [][(pc[Main] = "NewStore" /\ file.exists /\ pc'[Main] # "NewStore")
            => (file' = file /\ pc'[Main] = "serving")]_vars
    /\ [](\A p \in Workers :
            (/\ HasRead(p) /\ err[p] # "ReadError"
             /\ committed.restarted /\ committed.by # "none")
                => (err[p] = "" /\ data[p] = committed.doc))

\* C19: the file changes only in a step of a goroutine that holds the write
\* lock inside saveDataFile; no step of a read, whether the read succeeds or
\* fails, and no step of a GET request changes it.
C19_ReadsPure ==
    [][/\ file' # file =>
            \E p \in Procs :
                /\ pc[p] = "Marshal" /\ pc'[p] = "Unlock"
                /\ mu.writer = p
                /\ \A q \in Procs \ {p} : pc'[q] = pc[q]
       /\ \A p \in Workers :
            (InRead(p) /\ pc'[p] # pc[p]) => file' = file]_vars

\* a read that failed and a read that succeeded have returned, and the
\* file still holds the document
C19_Witness ==
    \E p \in Workers, q \in Workers :
        /\ pc[p] = "ReadRet" /\ err[p] = "ReadError"
        /\ pc[q] = "ReadRet" /\ err[q] = "" /\ data[q] = StartDoc
        /\ file.exists /\ file.content = MarshalIndent(StartDoc).bytes

\* C20: a saveDataFile that succeeds holds the write lock and leaves in the
\* file exactly the encoding of its own argument; so after replaces that
\* all succeeded the file holds, whole, the encoding of the argument of the
\* one that took the lock last.
C20_LastWriterWins ==
    /\ [][\A p \in Procs :
            (pc[p] = "Marshal" /\ pc'[p] = "Unlock" /\ err'[p] = "") =>
                /\ mu.writer = p
                /\ file'.content = MarshalIndent(newData[p]).bytes
                /\ committed'.doc = newData[p]]_vars
    /\ [](AfterReplace =>
            /\ file.exists
            /\ file.content = MarshalIndent(committed.doc).bytes)

\* a POST and then another update with a different document have
\* succeeded; the file holds the document of the second
C20_Witness ==
    \E p \in Workers, q \in Workers :
        /\ pc[p] = "done" /\ status[p] = 201
        /\ pc[q] = "Unlock" /\ err[q] = "" /\ newData[q] = StartDoc
        /\ committed.by = "updateDataHandler" /\ ~committed.again
        /\ file.content = MarshalIndent(StartDoc).bytes

====
